---- MODULE Spec2Model ----
(***************************************************************************)
(* Model of the retrieval-augmented chat pipeline of                       *)
(* app/backend/approaches: ChatApproach (chatapproach.py) and              *)
(* ChatReadRetrieveReadApproach (chatreadretrieveread.py).                 *)
(*                                                                         *)
(* One request is modelled.  A Python string is a sequence of one-element  *)
(* strings (its characters); a fixed literal of the code may be kept as a  *)
(* single element.  Python's None is the value None below.                 *)
(***************************************************************************)
EXTENDS Integers, Sequences, FiniteSets, TLC

VARIABLES
    messages_last,      \* messages[-1]["content"]: a text or NonText
    overrides,          \* the overrides map of the request
    should_stream,      \* TRUE: run_with_streaming, FALSE: run_without_streaming
    service,            \* what the remote services answer when they do not fail
    chatgpt_deployment, \* self.chatgpt_deployment: a deployment name, None or ""
    pc,                 \* position of the request's coroutine / generator
    demand,             \* the caller is waiting for the coroutine / generator
    stopped,            \* the consumer abandoned the streaming response
    calls,              \* remote calls issued so far, in order
    outstanding,        \* remote calls issued and not yet completed
    error,              \* the exception delivered to the caller, or NoError
    query_text,         \* the effective query, once get_search_query returned it
    extra_info,         \* ExtraInfo returned by run_until_final_call
    stream,             \* the part of the answer the generation stream has not delivered
    blanks,             \* events without text delivered by the generation stream
    event,              \* the current event_chunk of the async for loop
    followup_questions_started,
    followup_content,
    chunks,             \* what the generator has yielded to the consumer, in order
    response            \* chat_app_response of run_without_streaming

vars == <<messages_last, overrides, should_stream, service, chatgpt_deployment, pc, demand, stopped, calls,
          outstanding, error, query_text, extra_info, stream, blanks, event,
          followup_questions_started, followup_content, chunks, response>>

----------------------------------------------------------------------------
(* Bounds of the model *)

\* events without text (empty choices, content None, content "") per stream
MaxBlankEvents == 1

----------------------------------------------------------------------------
(* Values *)

None == <<"None">>
NonText == <<"NonText">>
NO_RESPONSE == <<"0">>

OrEmpty(c) == IF c = None THEN <<>> ELSE c

RECURSIVE Join(_, _)
\* sep.join(parts)
Join(sep, parts) ==
    IF parts = <<>> THEN <<>>
    ELSE IF Len(parts) = 1 THEN parts[1]
    ELSE parts[1] \o sep \o Join(sep, Tail(parts))

\* "<<" in content
HasLT(s) == \E i \in 1..(Len(s) - 1) : s[i] = "<" /\ s[i + 1] = "<"

\* content.index("<<"), counted from 1; 0 when "<<" does not occur
IndexLT(s) ==
    IF HasLT(s)
    THEN CHOOSE i \in 1..(Len(s) - 1) :
            /\ s[i] = "<" /\ s[i + 1] = "<"
            /\ \A j \in 1..(i - 1) : ~(s[j] = "<" /\ s[j + 1] = "<")
    ELSE 0

\* content[: content.index("<<")], and content.split("<<")[0]
BeforeLT(s) == IF HasLT(s) THEN SubSeq(s, 1, IndexLT(s) - 1) ELSE s

\* content[content.index("<<") :]
FromLT(s) == SubSeq(s, IndexLT(s), Len(s))

RECURSIVE RunLen(_, _)
\* length of the longest run of characters other than ">" starting at s[i]
RunLen(s, i) ==
    IF i > Len(s) \/ s[i] = ">" THEN 0 ELSE 1 + RunLen(s, i + 1)

RECURSIVE FindAllFrom_UnclosedTail(_, _)
\* the pattern taking the end of the text for a closing delimiter
FindAllFrom_UnclosedTail(s, i) ==
    IF i + 1 > Len(s) THEN <<>>
    ELSE IF s[i] = "<" /\ s[i + 1] = "<"
    THEN LET n == RunLen(s, i + 2)
             e == i + 2 + n
         IN  IF n >= 1 /\ e > Len(s)
             THEN <<SubSeq(s, i + 2, e - 1)>>
             ELSE IF n >= 1 /\ e + 1 <= Len(s) /\ s[e] = ">" /\ s[e + 1] = ">"
             THEN <<SubSeq(s, i + 2, e - 1)>> \o FindAllFrom_UnclosedTail(s, e + 2)
             ELSE FindAllFrom_UnclosedTail(s, i + 1)
    ELSE FindAllFrom_UnclosedTail(s, i + 1)

RECURSIVE FindAllFrom(_, _)
\* re.findall(r"<<([^>>]+)>>", s), scanning from s[i]
FindAllFrom(s, i) ==
    IF i + 1 > Len(s) THEN <<>>
    ELSE IF s[i] = "<" /\ s[i + 1] = "<"
    THEN LET n == RunLen(s, i + 2)
             e == i + 2 + n
         IN  IF n >= 1 /\ e + 1 <= Len(s) /\ s[e] = ">" /\ s[e + 1] = ">"
             THEN <<SubSeq(s, i + 2, e - 1)>> \o FindAllFrom(s, e + 2)
             ELSE FindAllFrom(s, i + 1)
    ELSE FindAllFrom(s, i + 1)

extract_followup_questions(content) ==
    IF content = None
    THEN [content |-> None, questions |-> <<>>]
    ELSE [content |-> BeforeLT(content), questions |-> FindAllFrom(content, 1)]

----------------------------------------------------------------------------
(* Overrides: a map; a key that is not set is not in its domain *)

Get(o, k, d) == IF k \in DOMAIN o THEN o[k] ELSE d

\* Python truthiness of overrides.get(k) for a boolean option
Truthy(o, k) == k \in DOMAIN o /\ o[k] = TRUE

NoOverrides == [k \in {} |-> TRUE]

RetrievalModeChoices ==
    {NoOverrides}
        \cup {"retrieval_mode" :> m : m \in {"text", "vectors", "hybrid", "other"}}

SuggestChoices == {NoOverrides, "suggest_followup_questions" :> TRUE}

PromptTemplateChoices ==
    {NoOverrides,
     "prompt_template" :> <<">", ">", ">", "i">>,
     "prompt_template" :> <<"T", "{who}">>}

\* prompt_template overrides: with the ">>>" marker, without it, with escaped
\* braces, with a lone brace, with known and unknown replacement fields
AllPromptTemplates ==
    {<<">", ">", ">", "i">>,
     <<">", ">", ">", "i", "\n">>,
     <<">", ">", ">">>,
     <<">", ">", ">", "{who}">>,
     <<">", ">", "T">>,
     <<"T">>,
     <<>>,
     <<"T", "{follow_up_questions_prompt}">>,
     <<"T", "{who}">>,
     <<"{injected_prompt}">>,
     <<"a", "{{", "b", "}}">>,
     <<"a", "{", "b">>,
     <<"{who}", "}">>}

AllPromptOverrides ==
    {s @@ p : s \in SuggestChoices,
              p \in {NoOverrides} \cup {"prompt_template" :> t : t \in AllPromptTemplates}}

OverridesSet ==
    {r @@ s @@ p : r \in RetrievalModeChoices, s \in SuggestChoices,
                   p \in PromptTemplateChoices}

\* the newest message's content
UserQuery == <<"q", "?">>
LastContents == {UserQuery, NonText}

\* messages[:-1]
PastMessages == <<>>

SessionState == "session-1"

----------------------------------------------------------------------------
(* Query Extractor *)

\* the characters str.strip() removes: those of str.isspace().  A character
\* that a TLA+ string cannot hold stands under the name of its code point.
IsSpace(c) ==
    c \in {" ", "\t", "\n", "\r", "\f",
           "U+000B", "U+001C", "U+001D", "U+001E", "U+001F", "U+0085", "U+00A0",
           "U+1680", "U+2000", "U+2001", "U+2002", "U+2003", "U+2004", "U+2005",
           "U+2006", "U+2007", "U+2008", "U+2009", "U+200A", "U+2028", "U+2029",
           "U+202F", "U+205F", "U+3000"}

RECURSIVE LStrip(_)
LStrip(s) == IF s # <<>> /\ IsSpace(s[1]) THEN LStrip(Tail(s)) ELSE s

RECURSIVE RStrip(_)
RStrip(s) ==
    IF s # <<>> /\ IsSpace(s[Len(s)]) THEN RStrip(SubSeq(s, 1, Len(s) - 1)) ELSE s

\* str.strip()
Strip(s) == LStrip(RStrip(s))

RECURSIVE ToolCallsQuery_NoTypeCheck(_, _, _)
\* the loop without the test of tool.type
ToolCallsQuery_NoTypeCheck(tool_calls, i, user_query) ==
    IF i > Len(tool_calls) THEN user_query
    ELSE LET tool == tool_calls[i]
             search_query == IF "search_query" \in DOMAIN tool.arguments
                             THEN tool.arguments["search_query"] ELSE <<"0">>
         IN  IF tool.name = "search_sources" /\ search_query # <<"0">>
             THEN search_query
             ELSE ToolCallsQuery_NoTypeCheck(tool_calls, i + 1, user_query)

\* the loop looking at the first tool call only
ToolCallsQuery_FirstOnly(tool_calls, i, user_query) ==
    LET tool == tool_calls[1]
        search_query == IF "search_query" \in DOMAIN tool.arguments
                        THEN tool.arguments["search_query"] ELSE <<"0">>
    IN  IF tool.type = "function" /\ tool.name = "search_sources"
           /\ search_query # <<"0">>
        THEN search_query ELSE user_query

RECURSIVE ToolCallsQuery(_, _, _)
\* the for loop over response_message.tool_calls, from tool_calls[i]: the
\* search_query it returns, whatever its value (a JSON null comes back as
\* None), or, when the loop ends without returning, the user_query of the
\* final return
ToolCallsQuery(tool_calls, i, user_query) ==
    IF i > Len(tool_calls) THEN user_query
    ELSE LET tool == tool_calls[i]
             search_query == Get(tool.arguments, "search_query", NO_RESPONSE)
         IN  IF tool.type # "function" THEN ToolCallsQuery(tool_calls, i + 1, user_query)
             ELSE IF tool.name = "search_sources" /\ search_query # NO_RESPONSE
                  THEN search_query
                  ELSE ToolCallsQuery(tool_calls, i + 1, user_query)

\* the free text looked at as well when the tool calls yield nothing
get_search_query_FallsToText(chat_completion, user_query) ==
    LET text == IF OrEmpty(chat_completion.content) # <<>>
                     /\ Strip(chat_completion.content) # NO_RESPONSE
                THEN chat_completion.content
                ELSE user_query
    IN  IF chat_completion.tool_calls # <<>>
        THEN ToolCallsQuery(chat_completion.tool_calls, 1, text)
        ELSE text

\* the free text compared with the sentinel without strip()
get_search_query_NoStrip(chat_completion, user_query) ==
    IF chat_completion.tool_calls # <<>>
    THEN ToolCallsQuery(chat_completion.tool_calls, 1, user_query)
    ELSE IF OrEmpty(chat_completion.content) # <<>>
              /\ chat_completion.content # NO_RESPONSE
         THEN chat_completion.content
         ELSE user_query

get_search_query(chat_completion, user_query) ==
    IF chat_completion.tool_calls # <<>>
    THEN ToolCallsQuery(chat_completion.tool_calls, 1, user_query)
    ELSE IF OrEmpty(chat_completion.content) # <<>>
              /\ Strip(chat_completion.content) # NO_RESPONSE
         THEN chat_completion.content
         ELSE user_query

ToolCall(type, name, arguments) ==
    [type |-> type, name |-> name, arguments |-> arguments]

\* what the query-generation call may answer
QueryCompletions ==
    {[tool_calls |-> <<ToolCall("function", "search_sources",
                                "search_query" :> <<"s", "q">>)>>,
      content |-> None],
     [tool_calls |-> <<>>, content |-> <<"0">>],
     [tool_calls |-> <<>>, content |-> None]}

\* json.loads(function.arguments) of a tool call without arguments
NoArguments == [k \in {} |-> <<>>]

SearchTool(search_query) ==
    ToolCall("function", "search_sources", "search_query" :> search_query)

\* tool calls a completion may carry
ToolCallChoices ==
    {SearchTool(<<"s", "q">>),
     SearchTool(<<"s", "2">>),
     SearchTool(<<"0">>),
     SearchTool(<<>>),
     SearchTool(None),
     ToolCall("function", "search_sources", NoArguments),
     ToolCall("function", "other", "search_query" :> <<"x", "x">>),
     ToolCall("custom", "search_sources", "search_query" :> <<"x", "x">>)}

\* response_message.tool_calls: None or empty, one call, two calls
ToolCallLists ==
    {<<>>} \cup {<<t>> : t \in ToolCallChoices}
           \cup {<<t, u>> : t \in ToolCallChoices, u \in ToolCallChoices}

\* response_message.content
FreeTexts ==
    {None, <<>>, <<"0">>, <<" ", "0", "\n">>, <<"f", "t">>, <<" ", "f", "t", " ">>,
     <<" ">>, <<"0", "\r", "\n">>, <<"U+00A0", "0", "\f">>, <<"\r", "f", "t">>}

AllQueryCompletions == [tool_calls : ToolCallLists, content : FreeTexts]

----------------------------------------------------------------------------
(* Prompt Assembly *)

\* the text of the system template before its two placeholders
SystemTemplateText == "Develop a structured, user-friendly system prompt ..."

system_message_chat_conversation ==
    <<SystemTemplateText, "\n        ", "{follow_up_questions_prompt}",
      "\n        ", "{injected_prompt}", "\n        ">>

follow_up_questions_prompt_content == <<"Generate 3 very brief follow-up questions">>

\* a replacement field "{name}" of a format string
IsPlaceholder(tok) == tok \in {"{follow_up_questions_prompt}", "{injected_prompt}", "{who}"}

\* a brace that is neither doubled nor part of a replacement field
IsLoneBrace(tok) == tok \in {"{", "}"}

\* what a token that is no replacement field contributes: "{{" and "}}" are the
\* escapes of "{" and "}"
Literal(tok) == IF tok = "{{" THEN "{" ELSE IF tok = "}}" THEN "}" ELSE tok

FormatOk(text) == [ok |-> TRUE, error |-> "none", text |-> text]
FormatError(type) == [ok |-> FALSE, error |-> type, text |-> <<>>]

RECURSIVE Format(_, _)
\* str.format(**args) on a template, read from left to right; args maps
\* replacement fields to texts.  A field that args lacks raises KeyError, a
\* lone brace raises ValueError; the values are inserted as they are.
Format(template, args) ==
    IF template = <<>> THEN FormatOk(<<>>)
    ELSE LET tok == Head(template)
             rest == Format(Tail(template), args)
         IN  IF IsPlaceholder(tok) /\ tok \notin DOMAIN args THEN FormatError("KeyError")
             ELSE IF IsLoneBrace(tok) THEN FormatError("ValueError")
             ELSE IF ~rest.ok THEN rest
             ELSE IF IsPlaceholder(tok) THEN FormatOk(args[tok] \o rest.text)
             ELSE FormatOk(<<Literal(tok)>> \o rest.text)

StartsWithMarker(s) ==
    Len(s) >= 3 /\ SubSeq(s, 1, 3) = <<">", ">", ">">>

get_system_prompt(override_prompt, follow_up_questions_prompt) ==
    IF override_prompt = None
    THEN Format(system_message_chat_conversation,
                ("{injected_prompt}" :> <<>>)
                @@ ("{follow_up_questions_prompt}" :> follow_up_questions_prompt))
    ELSE IF StartsWithMarker(override_prompt)
    THEN Format(system_message_chat_conversation,
                ("{injected_prompt}" :>
                    (SubSeq(override_prompt, 4, Len(override_prompt)) \o <<"\n">>))
                @@ ("{follow_up_questions_prompt}" :> follow_up_questions_prompt))
    ELSE Format(override_prompt,
                "{follow_up_questions_prompt}" :> follow_up_questions_prompt)

----------------------------------------------------------------------------
(* Collaborators of run_until_final_call *)

query_response_token_limit == 100
response_token_limit == 1024
\* get_token_limit(chatgpt_model)
chatgpt_token_limit == 4000
DefaultTop == 3

GenerateSearchQueryFor == <<"Generate search query for: ">>
SourcesHeading == <<"\n\nSources:\n">>

\* text search not enabled when retrieval_mode is unset
use_text_search_NoDefault(o) == Get(o, "retrieval_mode", "None") \in {"text", "hybrid"}

use_text_search(o) == Get(o, "retrieval_mode", "None") \in {"text", "hybrid", "None"}
use_vector_search(o) == Get(o, "retrieval_mode", "None") \in {"vectors", "hybrid", "None"}

\* build_messages(...): the call's arguments; trimming to max_tokens is the helper's
BuildMessages(system_prompt, few_shots, past_messages, new_user_content, max_tokens) ==
    [system_prompt |-> system_prompt, few_shots |-> few_shots,
     past_messages |-> past_messages, new_user_content |-> new_user_content,
     max_tokens |-> max_tokens]

QueryMessages(original_user_query) ==
    BuildMessages(<<"query_prompt_template">>, "query_prompt_few_shots", PastMessages,
                  GenerateSearchQueryFor \o original_user_query,
                  chatgpt_token_limit - query_response_token_limit)

Doc(sourcepage, content, captions) ==
    [sourcepage |-> sourcepage, content |-> content, captions |-> captions]

\* what the retrieval call may answer
ResultSets ==
    {<<>>,
     <<Doc("p1", <<"d", "1">>, <<>>), Doc("p2", <<"d", "2">>, <<<<"c", "2">>>>)>>}

\* one passage string per result: the caption when captions are asked for and
\* present, the content otherwise
SourceText(doc, use_semantic_captions) ==
    <<doc.sourcepage, ": ">>
    \o (IF use_semantic_captions /\ doc.captions # <<>>
        THEN Join(<<" . ">>, doc.captions)
        ELSE doc.content)

get_sources_content(results, use_semantic_captions) ==
    [i \in DOMAIN results |-> SourceText(results[i], use_semantic_captions)]

\* self.chatgpt_deployment of a request that goes to a named deployment
NamedDeployment == "chatgpt_deployment"

\* self.chatgpt_deployment: set, None, or empty
DeploymentChoices == {NamedDeployment, "None", ""}

\* the props of the first and of the fourth thought
ModelProps ==
    IF chatgpt_deployment \notin {"None", ""}
    THEN [model |-> "chatgpt_model", deployment |-> chatgpt_deployment]
    ELSE [model |-> "chatgpt_model"]

ThoughtStep(title, content, props) ==
    [title |-> title, content |-> content, props |-> props]

SearchArgs(o, query, vectors) ==
    [top |-> Get(o, "top", DefaultTop),
     query_text |-> query,
     filter |-> "None",
     vectors |-> vectors,
     use_text_search |-> use_text_search(o),
     use_vector_search |-> use_vector_search(o),
     use_semantic_ranker |-> Truthy(o, "semantic_ranker"),
     use_semantic_captions |-> Truthy(o, "semantic_captions")]

SearchProps(o) ==
    [use_semantic_captions |-> Truthy(o, "semantic_captions"),
     use_semantic_ranker |-> Truthy(o, "semantic_ranker"),
     top |-> Get(o, "top", DefaultTop),
     filter |-> "None",
     use_vector_search |-> use_vector_search(o),
     use_text_search |-> use_text_search(o)]

AnswerMessages(system_message, original_user_query, sources_content) ==
    BuildMessages(system_message, "None", PastMessages,
                  original_user_query \o SourcesHeading
                      \o Join(<<"\n">>, sources_content),
                  chatgpt_token_limit - response_token_limit)

\* the thoughts with the answer prompt before the search results
ExtraInfo_Swapped(o, original_user_query, query, results, sources_content, messages) ==
    [data_points |-> [text |-> sources_content],
     thoughts |->
        <<ThoughtStep("Prompt to generate search query",
                      QueryMessages(original_user_query), ModelProps),
          ThoughtStep("Search using generated search query", query, SearchProps(o)),
          ThoughtStep("Prompt to generate answer", messages, ModelProps),
          ThoughtStep("Search results", results, "None")>>]

ExtraInfo(o, original_user_query, query, results, sources_content, messages) ==
    [data_points |-> [text |-> sources_content],
     thoughts |->
        <<ThoughtStep("Prompt to generate search query",
                      QueryMessages(original_user_query), ModelProps),
          ThoughtStep("Search using generated search query", query, SearchProps(o)),
          ThoughtStep("Search results", results, "None"),
          ThoughtStep("Prompt to generate answer", messages, ModelProps)>>]

NoExtraInfo == [data_points |-> [text |-> <<>>], thoughts |-> <<>>]

----------------------------------------------------------------------------
(* What the answer-generation call may answer *)

AnswerTexts ==
    {<<"a", "b">>,
     <<"a", "<", "b">>,
     <<"a", "<", "<", "b", ">", ">">>,
     <<"<", "<", "a", "b", "<", "<">>,
     <<"<", "<", "a", ">", ">", "<", "<", "b", ">", ">">>}

AnswerContents == AnswerTexts \cup {None}

PipelineAnswers == {None, <<"a", "<", "<", "b", ">", ">">>}

\* "<<question>>"
Pair(question) == <<"<", "<">> \o question \o <<">", ">">>

RECURSIVE Pairs(_)
Pairs(questions) ==
    IF questions = <<>> THEN <<>> ELSE Pair(Head(questions)) \o Pairs(Tail(questions))

\* texts a follow-up question may consist of: plain, with a "<", with a ">"
QuestionTexts == {<<"a">>, <<"b">>, <<"a", "<", "b">>, <<"a", ">", "b">>}

QuestionLists ==
    {<<q>> : q \in QuestionTexts} \cup {<<q, r>> : q \in QuestionTexts, r \in QuestionTexts}

\* a prefix followed by well-formed pairs
WellFormedCases == [prefix : {<<>>, <<"p">>}, questions : QuestionLists]

WellFormedContent(c) == c.prefix \o Pairs(c.questions)

\* contents with an opening delimiter that nothing closes
UnclosedContents ==
    {<<"p", "<", "<", "a">>,
     <<"p", "<", "<", "a", ">">>,
     <<">", ">", "p", "<", "<", "a">>,
     <<"p", "<", "<">>,
     <<"p", "<", "<", "a", ">", ">", "<", "<", "b">>,
     <<"<", "<", "a", ">", ">", "<", "<", "b", ">", ">", "<", "<">>}

\* texts between "<<" and ">>" ahead of an unclosed delimiter: a question
\* text or nothing at all
PairTexts == QuestionTexts \cup {<<>>}

PairLists ==
    {<<>>} \cup {<<q>> : q \in PairTexts} \cup {<<q, r>> : q \in PairTexts, r \in PairTexts}

\* an opening delimiter and what follows it, with no closing delimiter
UnclosedTails == {<<"<", "<">>, <<"<", "<", "b">>, <<"<", "<", "a", ">">>}

\* a prefix, closed pairs, then an opening delimiter that nothing closes
UnclosedCases == [prefix : {<<>>, <<"p">>}, pairs : PairLists, tail : UnclosedTails]

UnclosedContent(c) == c.prefix \o Pairs(c.pairs) \o c.tail

\* message.content of the answer-generation completion
CompletionContents ==
    {None, <<>>, <<"a", "b">>, <<"a", "<", "b">>, <<"p", "<", "<", ">", ">">>}
        \cup {WellFormedContent(c) : c \in WellFormedCases}
        \cup UnclosedContents
        \cup {UnclosedContent(c) : c \in UnclosedCases}

----------------------------------------------------------------------------
(* Chunks of the streaming response *)

\* a header that leaves the ExtraInfo out
HeaderChunk_NoContext(info, session_state) ==
    [delta |-> [role |-> "assistant"], session_state |-> session_state]

HeaderChunk(info, session_state) ==
    [delta |-> [role |-> "assistant"], context |-> info, session_state |-> session_state]

ContentChunk(content, role) == [delta |-> [content |-> content, role |-> role]]

FollowupChunk(followup_questions) ==
    [delta |-> [role |-> "assistant"],
     context |-> [followup_questions |-> followup_questions]]

\* the role of the next delta: the generation service names it on the first one
DeltaRole(answered) == IF answered THEN "None" ELSE "assistant"

NoEvent == [choices |-> FALSE, content |-> None, role |-> "None"]

----------------------------------------------------------------------------
(* The Streaming Normalizer: one pass of the async for loop's body on an event
   with choices.  yield: the chunk it yields, if any; buffer: what it appends
   to followup_content (after the yield, when it yields in the "<<" branch). *)

\* NormalizeFragment without the branch that buffers later fragments
NormalizeFragment_DropsLater(suggest, started, raw, role) ==
    LET content == OrEmpty(raw)
    IN  IF suggest /\ HasLT(content)
        THEN [started |-> TRUE,
              yield |-> IF BeforeLT(content) # <<>>
                        THEN <<ContentChunk(BeforeLT(content), role)>>
                        ELSE <<>>,
              buffer |-> FromLT(content)]
        ELSE IF started
        THEN [started |-> started, yield |-> <<>>, buffer |-> <<>>]
        ELSE [started |-> started, yield |-> <<ContentChunk(raw, role)>>,
              buffer |-> <<>>]

\* NormalizeFragment without the test "if earlier_content"
NormalizeFragment_YieldsEmpty(suggest, started, raw, role) ==
    LET content == OrEmpty(raw)
    IN  IF suggest /\ HasLT(content)
        THEN [started |-> TRUE,
              yield |-> <<ContentChunk(BeforeLT(content), role)>>,
              buffer |-> FromLT(content)]
        ELSE IF started
        THEN [started |-> started, yield |-> <<>>, buffer |-> content]
        ELSE [started |-> started, yield |-> <<ContentChunk(raw, role)>>,
              buffer |-> <<>>]

\* NormalizeFragment without the test of suggest_followup_questions
NormalizeFragment_IgnoresOption(suggest, started, raw, role) ==
    LET content == OrEmpty(raw)
    IN  IF HasLT(content)
        THEN [started |-> TRUE,
              yield |-> IF BeforeLT(content) # <<>>
                        THEN <<ContentChunk(BeforeLT(content), role)>>
                        ELSE <<>>,
              buffer |-> FromLT(content)]
        ELSE IF started
        THEN [started |-> started, yield |-> <<>>, buffer |-> content]
        ELSE [started |-> started, yield |-> <<ContentChunk(raw, role)>>,
              buffer |-> <<>>]

NormalizeFragment(suggest, started, raw, role) ==
    LET content == OrEmpty(raw)
    IN  IF suggest /\ HasLT(content)
        THEN [started |-> TRUE,
              yield |-> IF BeforeLT(content) # <<>>
                        THEN <<ContentChunk(BeforeLT(content), role)>>
                        ELSE <<>>,
              buffer |-> FromLT(content)]
        ELSE IF started
        THEN [started |-> started, yield |-> <<>>, buffer |-> content]
        ELSE [started |-> started, yield |-> <<ContentChunk(raw, role)>>,
              buffer |-> <<>>]

\* the trailing chunk yielded whatever the buffer holds
EmitsFollowupChunk_Always(buffer) == TRUE

\* if followup_content: the trailing chunk is yielded
EmitsFollowupChunk(buffer) == buffer # <<>>

----------------------------------------------------------------------------
(* Remote calls *)

NoError == [type |-> "none", call |-> "none"]

\* a failure of a remote call, as the caller receives it
RemoteError(name) == [type |-> "RemoteError", call |-> name]

Call(name, args) == [name |-> name, args |-> args]

\* the content of the last message taken as text without looking
IsStr_Unchecked(c) == TRUE

IsStr(c) == c # NonText

Inputs == <<messages_last, overrides, should_stream, service, chatgpt_deployment>>
Streaming == <<stream, blanks, event, followup_questions_started, followup_content>>

\* the state of a request before it runs
InitWith(contents, overrides_set, services, deployments) ==
    /\ messages_last \in contents
    /\ overrides \in overrides_set
    /\ should_stream \in BOOLEAN
    /\ service \in services
    /\ chatgpt_deployment \in deployments
    /\ pc = "start"
    /\ demand = ~should_stream
    /\ stopped = FALSE
    /\ calls = <<>>
    /\ outstanding = {}
    /\ error = NoError
    /\ query_text = None
    /\ extra_info = NoExtraInfo
    /\ stream = <<>>
    /\ blanks = 0
    /\ event = NoEvent
    /\ followup_questions_started = FALSE
    /\ followup_content = <<>>
    /\ chunks = <<>>
    /\ response = <<>>

\* the state of a request to a named deployment before it runs
InitOf(contents, overrides_set, services) ==
    InitWith(contents, overrides_set, services, {NamedDeployment})

Services(completions, result_sets, answers) ==
    [chat_completion : completions, results : result_sets, answer : answers]

Init ==
    InitOf(LastContents, OverridesSet,
           Services(QueryCompletions, ResultSets, PipelineAnswers))

\* requests that differ only in what reaches the Streaming Normalizer
InitNormalizer ==
    InitOf({UserQuery}, SuggestChoices,
           Services({[tool_calls |-> <<>>, content |-> None]}, {<<>>}, AnswerContents))

\* a completion without tool call and without free text
PlainCompletion == [tool_calls |-> <<>>, content |-> None]

\* non-streaming requests that differ in the query-generation completion
InitQueries ==
    /\ InitOf({UserQuery}, {NoOverrides},
              Services(AllQueryCompletions, {<<>>}, {None}))
    /\ ~should_stream

\* streaming requests for one answer text
InitStreamed ==
    /\ InitOf({UserQuery}, SuggestChoices,
              Services({PlainCompletion}, {<<>>}, PipelineAnswers))
    /\ should_stream

\* requests that differ in the prompt_template override
InitPrompts ==
    InitOf({UserQuery}, AllPromptOverrides, Services({PlainCompletion}, {<<>>}, {None}))

\* non-streaming requests that differ in the completion's content
InitAnswers ==
    /\ InitOf({UserQuery}, SuggestChoices,
              Services({PlainCompletion}, {<<>>}, CompletionContents))
    /\ ~should_stream

\* overrides that reach the retrieval call and the sources
SearchOverrides ==
    {NoOverrides, "semantic_captions" :> TRUE, "semantic_ranker" :> TRUE, "top" :> 5,
     "retrieval_mode" :> "text"}

\* requests that differ in the search options and in what retrieval returns
InitRetrievals ==
    InitWith({UserQuery}, SearchOverrides,
             Services(QueryCompletions, ResultSets, {None}), DeploymentChoices)

InitContracts ==
    \/ InitRetrievals
    \/ InitQueries
    \/ InitPrompts
    \/ InitAnswers
    \/ InitStreamed

----------------------------------------------------------------------------
(* The consumer of a streaming response *)

Live == pc \notin {"finished", "failed", "done"}

\* the consumer asks the generator for its next chunk
Pull ==
    /\ should_stream /\ ~demand /\ ~stopped /\ Live
    /\ demand' = TRUE
    /\ UNCHANGED <<Inputs, Streaming, pc, stopped, calls, outstanding, error,
                   query_text, extra_info, chunks, response>>

\* the consumer stops pulling
Stop ==
    /\ should_stream /\ ~demand /\ ~stopped /\ Live
    /\ stopped' = TRUE
    /\ UNCHANGED <<Inputs, Streaming, pc, demand, calls, outstanding, error,
                   query_text, extra_info, chunks, response>>

----------------------------------------------------------------------------
(* run_until_final_call *)

\* an exception leaves the coroutine / generator and reaches the caller
Raise(e) ==
    /\ pc' = "failed"
    /\ error' = e
    /\ outstanding' = {}
    /\ demand' = FALSE

\* lines 88-145: up to the await of the query-generation call
Begin ==
    /\ pc = "start" /\ demand
    /\ IF ~IsStr(messages_last)
       THEN /\ Raise([type |-> "ValueError", call |-> "none"])
            /\ UNCHANGED calls
       ELSE /\ pc' = "await_query"
            /\ calls' = Append(calls, Call("query_generation",
                                           QueryMessages(messages_last)))
            /\ outstanding' = outstanding \cup {"query_generation"}
            /\ UNCHANGED <<error, demand>>
    /\ UNCHANGED <<Inputs, Streaming, stopped, query_text, extra_info, chunks,
                   response>>

\* a failed call issued again instead of raising
RemoteFailure_Retry(at, name) ==
    /\ pc = at /\ name \in outstanding /\ Len(calls) < 6
    /\ calls' = Append(calls, calls[Len(calls)])
    /\ UNCHANGED <<Inputs, Streaming, pc, demand, stopped, outstanding, error,
                   query_text, extra_info, chunks, response>>

\* the remote call awaited at pc fails
RemoteFailure(at, name) ==
    /\ pc = at /\ name \in outstanding
    /\ Raise(RemoteError(name))
    /\ UNCHANGED <<Inputs, Streaming, stopped, calls, query_text, extra_info,
                   chunks, response>>

QueryGenerationFails == RemoteFailure("await_query", "query_generation")
EmbeddingFails == RemoteFailure("await_embed", "embedding")
RetrievalFails == RemoteFailure("await_search", "retrieval")
AnswerGenerationFails == RemoteFailure("await_answer", "answer_generation")

\* the embedding call and the retrieval call issued together
QueryGenerationCompletes_Gather ==
    /\ pc = "await_query" /\ "query_generation" \in outstanding
    /\ LET q == get_search_query(service.chat_completion, messages_last)
       IN  /\ query_text' = q
           /\ pc' = "await_search"
           /\ calls' = calls \o <<Call("embedding", q),
                                  Call("retrieval", SearchArgs(overrides, q, <<>>))>>
           /\ outstanding' = (outstanding \ {"query_generation"})
                                 \cup {"embedding", "retrieval"}
    /\ UNCHANGED <<Inputs, Streaming, demand, stopped, error, extra_info, chunks,
                   response>>

\* lines 147-167: get_search_query, then the await of the embedding call or,
\* without vector search, of the retrieval call
QueryGenerationCompletes ==
    /\ pc = "await_query" /\ "query_generation" \in outstanding
    /\ LET q == get_search_query(service.chat_completion, messages_last)
       IN  /\ query_text' = q
           /\ IF use_vector_search(overrides)
              THEN /\ pc' = "await_embed"
                   /\ calls' = Append(calls, Call("embedding", q))
                   /\ outstanding' = (outstanding \ {"query_generation"})
                                         \cup {"embedding"}
              ELSE /\ pc' = "await_search"
                   /\ calls' = Append(calls,
                                  Call("retrieval", SearchArgs(overrides, q, <<>>)))
                   /\ outstanding' = (outstanding \ {"query_generation"})
                                         \cup {"retrieval"}
    /\ UNCHANGED <<Inputs, Streaming, demand, stopped, error, extra_info, chunks,
                   response>>

\* the retrieval call made with the original user question
EmbeddingCompletes_SearchesOriginal ==
    /\ pc = "await_embed" /\ "embedding" \in outstanding
    /\ pc' = "await_search"
    /\ calls' = Append(calls, Call("retrieval",
                                   SearchArgs(overrides, messages_last, <<"embedding">>)))
    /\ outstanding' = (outstanding \ {"embedding"}) \cup {"retrieval"}
    /\ UNCHANGED <<Inputs, Streaming, demand, stopped, error, query_text, extra_info,
                   chunks, response>>

\* lines 154-167: the embedding arrives, the retrieval call is awaited
EmbeddingCompletes ==
    /\ pc = "await_embed" /\ "embedding" \in outstanding
    /\ pc' = "await_search"
    /\ calls' = Append(calls, Call("retrieval",
                                   SearchArgs(overrides, query_text, <<"embedding">>)))
    /\ outstanding' = (outstanding \ {"embedding"}) \cup {"retrieval"}
    /\ UNCHANGED <<Inputs, Streaming, demand, stopped, error, query_text, extra_info,
                   chunks, response>>

\* run_without_streaming awaits the answer-generation request at once
AwaitAnswer ==
    /\ pc' = "await_answer"
    /\ calls' = Append(calls, Call("answer_generation", extra_info'.thoughts[4].content))
    /\ outstanding' = (outstanding \ {"retrieval"}) \cup {"answer_generation"}
    /\ UNCHANGED <<demand, chunks>>

\* run_with_streaming yields the header chunk first
YieldHeader ==
    /\ pc' = "yield_header"
    /\ chunks' = Append(chunks, HeaderChunk(extra_info', SessionState))
    /\ demand' = FALSE
    /\ outstanding' = outstanding \ {"retrieval"}
    /\ UNCHANGED calls

\* the answer-generation request started as soon as it is built
AfterFinalCall_Eager ==
    /\ pc' = IF should_stream THEN "yield_header" ELSE "await_answer"
    /\ chunks' = IF should_stream
                 THEN Append(chunks, HeaderChunk(extra_info', SessionState))
                 ELSE chunks
    /\ demand' = ~should_stream
    /\ calls' = Append(calls, Call("answer_generation", extra_info'.thoughts[4].content))
    /\ outstanding' = (outstanding \ {"retrieval"}) \cup {"answer_generation"}

\* what the caller of run_until_final_call does with the pair it returns
AfterFinalCall == IF should_stream THEN YieldHeader ELSE AwaitAnswer

\* lines 169-243: the results arrive; sources, system message, answer prompt and
\* ExtraInfo are built and returned with the request for the answer
RetrievalCompletes ==
    /\ pc = "await_search" /\ "retrieval" \in outstanding
    /\ LET results == service.results
           sources_content ==
               get_sources_content(results, Truthy(overrides, "semantic_captions"))
           system_message ==
               get_system_prompt(
                   Get(overrides, "prompt_template", None),
                   IF Truthy(overrides, "suggest_followup_questions")
                   THEN follow_up_questions_prompt_content ELSE <<>>)
           messages ==
               AnswerMessages(system_message.text, messages_last, sources_content)
       IN  IF ~system_message.ok
           THEN /\ Raise([type |-> system_message.error, call |-> "none"])
                /\ UNCHANGED <<calls, extra_info, chunks>>
           ELSE /\ extra_info' = ExtraInfo(overrides, messages_last, query_text,
                                           results, sources_content, messages)
                /\ AfterFinalCall
                /\ UNCHANGED error
    /\ UNCHANGED <<Inputs, Streaming, stopped, query_text, response>>

\* line 226: resumed after the header, the generator awaits the answer-generation request
ResumeAfterHeader ==
    /\ pc = "yield_header" /\ demand
    /\ pc' = "await_answer"
    /\ calls' = Append(calls, Call("answer_generation", extra_info.thoughts[4].content))
    /\ outstanding' = outstanding \cup {"answer_generation"}
    /\ UNCHANGED <<Inputs, Streaming, demand, stopped, error, query_text, extra_info,
                   chunks, response>>

----------------------------------------------------------------------------
(* run_without_streaming *)

\* the content split whatever the option says
ChatAppResponse_AlwaysExtracts(o, content, role, info, session_state) ==
    LET x == extract_followup_questions(content)
    IN  [message |-> [content |-> x.content, role |-> role],
         context |-> info @@ ("followup_questions" :> x.questions),
         session_state |-> session_state]

ChatAppResponse(o, content, role, info, session_state) ==
    LET x == extract_followup_questions(content)
    IN  IF Truthy(o, "suggest_followup_questions")
        THEN [message |-> [content |-> x.content, role |-> role],
              context |-> info @@ ("followup_questions" :> x.questions),
              session_state |-> session_state]
        ELSE [message |-> [content |-> content, role |-> role],
              context |-> info,
              session_state |-> session_state]

\* lines 199-210: the completion arrives and the response is returned.  Line 204
\* stores the questions in the dict run_until_final_call returned, which is the
\* response's context: extra_info changes with it.
AnswerCompletes ==
    /\ pc = "await_answer" /\ "answer_generation" \in outstanding /\ ~should_stream
    /\ response' = <<ChatAppResponse(overrides, service.answer, "assistant",
                                      extra_info, SessionState)>>
    /\ extra_info' = response'[1].context
    /\ pc' = "done"
    /\ outstanding' = outstanding \ {"answer_generation"}
    /\ demand' = FALSE
    /\ UNCHANGED <<Inputs, Streaming, stopped, calls, error, query_text, chunks>>

----------------------------------------------------------------------------
(* run_with_streaming *)

\* line 226: the generation stream is established
StreamOpens ==
    /\ pc = "await_answer" /\ "answer_generation" \in outstanding /\ should_stream
    /\ stream' = OrEmpty(service.answer)
    /\ pc' = "stream_loop"
    /\ outstanding' = outstanding \ {"answer_generation"}
    /\ UNCHANGED <<Inputs, blanks, event, followup_questions_started,
                   followup_content, demand, stopped, calls, error, query_text,
                   extra_info, chunks, response>>

\* choices[0] read without the test of line 229
StreamEmptyChoices_IndexError ==
    /\ pc = "stream_loop" /\ demand /\ blanks < MaxBlankEvents
    /\ event' = [choices |-> FALSE, content |-> <<"None">>, role |-> "None"]
    /\ blanks' = blanks + 1
    /\ Raise([type |-> "IndexError", call |-> "none"])
    /\ UNCHANGED <<Inputs, stream, followup_questions_started, followup_content,
                   stopped, calls, query_text, extra_info, chunks, response>>

\* lines 228-229: an event whose choices are empty is passed over
StreamEmptyChoices ==
    /\ pc = "stream_loop" /\ demand /\ blanks < MaxBlankEvents
    /\ event' = [choices |-> FALSE, content |-> None, role |-> "None"]
    /\ blanks' = blanks + 1
    /\ UNCHANGED <<Inputs, stream, followup_questions_started, followup_content, pc,
                   demand, stopped, calls, outstanding, error, query_text,
                   extra_info, chunks, response>>

\* the delta contents the stream may deliver next, with what is left of it
NextDeltas ==
    {[content |-> SubSeq(stream, 1, k), rest |-> SubSeq(stream, k + 1, Len(stream)),
      blank |-> 0] : k \in 1..Len(stream)}
    \cup (IF blanks < MaxBlankEvents
          THEN {[content |-> None, rest |-> stream, blank |-> 1],
                [content |-> <<>>, rest |-> stream, blank |-> 1]}
          ELSE {})

\* lines 229-249: an event with choices, up to the yield if it yields
StreamDelta ==
    /\ pc = "stream_loop" /\ demand
    /\ \E d \in NextDeltas :
          LET role == DeltaRole(Len(chunks) > 1 \/ followup_questions_started)
              n == NormalizeFragment(Truthy(overrides, "suggest_followup_questions"),
                                     followup_questions_started, d.content, role)
          IN  /\ event' = [choices |-> TRUE, content |-> d.content, role |-> role]
              /\ stream' = d.rest
              /\ blanks' = blanks + d.blank
              /\ followup_questions_started' = n.started
              /\ chunks' = chunks \o n.yield
              /\ demand' = (n.yield = <<>>)
              /\ IF n.yield # <<>> /\ n.buffer # <<>>
                 THEN pc' = "yield_earlier" /\ UNCHANGED followup_content
                 ELSE pc' = pc /\ followup_content' = followup_content \o n.buffer
    /\ UNCHANGED <<Inputs, stopped, calls, outstanding, error, query_text, extra_info,
                   response>>

\* line 245: resumed after yielding the text before "<<", the rest is buffered
ResumeAfterEarlier ==
    /\ pc = "yield_earlier" /\ demand
    /\ followup_content' = followup_content \o FromLT(OrEmpty(event.content))
    /\ pc' = "stream_loop"
    /\ UNCHANGED <<Inputs, stream, blanks, event, followup_questions_started, demand,
                   stopped, calls, outstanding, error, query_text, extra_info, chunks,
                   response>>

\* the buffered questions flushed as well when the consumer has gone away
StreamExhausted_FlushOnClose ==
    /\ \/ pc = "stream_loop" /\ demand /\ stream = <<>>
       \/ pc \in {"stream_loop", "yield_earlier"} /\ stopped
    /\ IF followup_content # <<>>
       THEN /\ chunks' = Append(chunks,
                    FollowupChunk(extract_followup_questions(followup_content).questions))
            /\ pc' = "yield_trailer"
       ELSE /\ pc' = "finished"
            /\ UNCHANGED chunks
    /\ demand' = FALSE
    /\ UNCHANGED <<Inputs, Streaming, stopped, calls, outstanding, error, query_text,
                   extra_info, response>>

\* lines 250-252: the generation stream is exhausted
StreamExhausted ==
    /\ pc = "stream_loop" /\ demand /\ stream = <<>>
    /\ IF EmitsFollowupChunk(followup_content)
       THEN /\ chunks' = Append(chunks,
                    FollowupChunk(extract_followup_questions(followup_content).questions))
            /\ pc' = "yield_trailer"
       ELSE /\ pc' = "finished"
            /\ UNCHANGED chunks
    /\ demand' = FALSE
    /\ UNCHANGED <<Inputs, Streaming, stopped, calls, outstanding, error, query_text,
                   extra_info, response>>

\* resumed after the trailing chunk, the generator ends
GeneratorReturns ==
    /\ pc = "yield_trailer" /\ demand
    /\ pc' = "finished"
    /\ demand' = FALSE
    /\ UNCHANGED <<Inputs, Streaming, stopped, calls, outstanding, error, query_text,
                   extra_info, chunks, response>>

----------------------------------------------------------------------------

Next ==
    \/ Pull
    \/ Stop
    \/ Begin
    \/ QueryGenerationFails
    \/ QueryGenerationCompletes
    \/ EmbeddingFails
    \/ EmbeddingCompletes
    \/ RetrievalFails
    \/ RetrievalCompletes
    \/ ResumeAfterHeader
    \/ AnswerGenerationFails
    \/ AnswerCompletes
    \/ StreamOpens
    \/ StreamEmptyChoices
    \/ StreamDelta
    \/ ResumeAfterEarlier
    \/ StreamExhausted
    \/ GeneratorReturns

Spec == Init /\ [][Next]_vars

SpecNormalizer == InitNormalizer /\ [][Next]_vars

SpecContracts == InitContracts /\ [][Next]_vars

----------------------------------------------------------------------------
(* Vocabulary of the properties *)

Suggest == Truthy(overrides, "suggest_followup_questions")

CallNames == [i \in DOMAIN calls |-> calls[i].name]

IsPrefix(s, t) == Len(s) <= Len(t) /\ SubSeq(t, 1, Len(s)) = s

\* a step of the async for loop that takes one event with choices from the stream
FragmentStep ==
    /\ pc = "stream_loop"
    /\ event'.choices
    /\ (stream' # stream \/ blanks' # blanks)

\* the content of the event the loop has just taken, None read as ""
Fragment == OrEmpty(event.content)

\* the chunk that passes the event the loop has just taken on unchanged
PassedOn == [delta |-> [content |-> event.content, role |-> event.role]]

\* the generation stream has been read to its end
Exhausted == pc \in {"yield_trailer", "finished"}

\* chunks after the header that carry no content delta
Synthetic == {i \in 2..Len(chunks) : "content" \notin DOMAIN chunks[i].delta}

----------------------------------------------------------------------------
(* C1: with suggest_followup_questions enabled, once a fragment containing "<<"
   has been processed, no later fragment produces a content chunk and every
   later fragment is appended in full to the follow-up buffer. *)
C1_BufferingNeverEmits ==
    [][(FragmentStep /\ Suggest /\ followup_questions_started)
          => /\ chunks' = chunks
             /\ followup_content' = followup_content \o Fragment']_vars

(* C2: with suggest_followup_questions enabled and the normalizer in
   PASSTHROUGH, a fragment without "<<" is yielded unchanged as one content
   chunk and the state stays PASSTHROUGH; a fragment with "<<" yields the part
   before the first "<<" only if it is non-empty, the part from the first "<<"
   on goes to the follow-up buffer (when the generator is resumed, if it
   yielded), and the state becomes BUFFERING_FOLLOWUPS. *)
C2_Passthrough ==
    /\ [][(FragmentStep /\ Suggest /\ ~followup_questions_started)
            => IF ~HasLT(Fragment')
               THEN /\ chunks' = Append(chunks, PassedOn')
                    /\ ~followup_questions_started'
                    /\ followup_content' = followup_content
                    /\ pc' = "stream_loop"
               ELSE /\ followup_questions_started'
                    /\ IF IndexLT(Fragment') = 1
                       THEN /\ chunks' = chunks
                            /\ followup_content' = followup_content \o Fragment'
                            /\ pc' = "stream_loop"
                       ELSE /\ chunks' = Append(chunks,
                                   [delta |-> [content |-> SubSeq(Fragment', 1,
                                                       IndexLT(Fragment') - 1),
                                               role |-> event'.role]])
                            /\ followup_content' = followup_content
                            /\ pc' = "yield_earlier"]_vars
    /\ [][(pc = "yield_earlier" /\ pc' # pc)
            => /\ followup_content' =
                      followup_content
                          \o SubSeq(Fragment, IndexLT(Fragment), Len(Fragment))
               /\ followup_questions_started'
               /\ chunks' = chunks]_vars

C2_Witness ==
    /\ Suggest /\ pc = "stream_loop" /\ followup_questions_started
    /\ Len(chunks) = 2
    /\ chunks[2] = [delta |-> [content |-> <<"a">>, role |-> "assistant"]]
    /\ followup_content = <<"<", "<", "b", ">", ">">>

(* C3: when the generation stream is exhausted, exactly one trailing chunk is
   yielded if and only if the follow-up buffer is non-empty; it is the last
   chunk, has no content delta, and its context holds only the questions parsed
   from the buffer.  Before exhaustion, and with an empty buffer, there is no
   such chunk. *)
C3_TrailingChunk ==
    should_stream =>
        IF Exhausted /\ followup_content # <<>>
        THEN /\ Synthetic = {Len(chunks)}
             /\ chunks[Len(chunks)] =
                    [delta |-> [role |-> "assistant"],
                     context |-> [followup_questions |->
                                      FindAllFrom(followup_content, 1)]]
        ELSE Synthetic = {}

C3_Witness ==
    /\ pc = "finished" /\ should_stream
    /\ Len(chunks) = 3
    /\ "content" \in DOMAIN chunks[2].delta
    /\ chunks[3] = [delta |-> [role |-> "assistant"],
                    context |-> [followup_questions |-> <<<<"b">>>>]]

(* C4: in a streaming request whose run_until_final_call succeeds, the first
   chunk is the header (role assistant, the full ExtraInfo, session_state); it
   is yielded once, before the answer-generation stream is touched, and no
   later content chunk has a context. *)
C4_HeaderFirst ==
    should_stream =>
        /\ (extra_info # NoExtraInfo \/ event # NoEvent
                \/ "answer_generation" \in {calls[i].name : i \in DOMAIN calls})
              => chunks # <<>>
        /\ chunks # <<>> =>
              /\ chunks[1] = [delta |-> [role |-> "assistant"],
                              context |-> extra_info,
                              session_state |-> SessionState]
              /\ Len(extra_info.thoughts) = 4
        /\ \A i \in 2..Len(chunks) :
              /\ "session_state" \notin DOMAIN chunks[i]
              /\ "content" \in DOMAIN chunks[i].delta => DOMAIN chunks[i] = {"delta"}

C4_Witness ==
    /\ should_stream /\ pc = "finished"
    /\ Len(chunks) >= 3
    /\ "content" \in DOMAIN chunks[2].delta

(* C5: for an answer text with two follow-up markers, however it is cut into
   fragments, the streaming response ends with a trailing chunk whose question
   list equals the followup_questions of the non-streaming response to the
   same text. *)
C5_RoundTrip ==
    (should_stream /\ Suggest /\ pc = "finished"
        /\ Len(FindAllFrom(OrEmpty(service.answer), 1)) = 2)
      => /\ Len(chunks) \in Synthetic
         /\ chunks[Len(chunks)].context.followup_questions =
                ChatAppResponse(overrides, service.answer, "assistant", extra_info,
                                SessionState).context.followup_questions

(* C6: when suggest_followup_questions is not enabled, every fragment is
   yielded unchanged as a content chunk, in order, even with "<<" in it; the
   follow-up buffer stays empty and no trailing chunk is yielded. *)
C6_NoSuggestPassesAll ==
    /\ []((should_stream /\ ~Suggest)
            => /\ followup_content = <<>>
               /\ ~followup_questions_started
               /\ Synthetic = {})
    /\ [][(FragmentStep /\ ~Suggest)
            => /\ chunks' = Append(chunks, PassedOn')
               /\ pc' = "stream_loop"]_vars

C6_Witness ==
    /\ should_stream /\ ~Suggest /\ pc = "finished"
    /\ Len(chunks) = 2
    /\ chunks[2].delta.content = <<"a", "<", "<", "b", ">", ">">>

----------------------------------------------------------------------------
(* The remote calls of one request *)

\* the order in which a request issues its remote calls
ExpectedCalls ==
    <<"query_generation">>
    \o (IF "retrieval_mode" \notin DOMAIN overrides
           \/ overrides["retrieval_mode"] \in {"vectors", "hybrid"}
        THEN <<"embedding">> ELSE <<>>)
    \o <<"retrieval", "answer_generation">>

(* C7: the remote calls of a request are issued in the order query-generation,
   embedding (only with vector search), retrieval, answer-generation, each
   after the one before it has completed: at most one is outstanding, and it
   is the one issued last. *)
C7_CallsInOrder ==
    /\ IsPrefix(CallNames, ExpectedCalls)
    /\ Cardinality(outstanding) <= 1
    /\ \A n \in outstanding : calls # <<>> /\ calls[Len(calls)].name = n

C7_Witness ==
    /\ pc = "done"
    /\ CallNames = <<"query_generation", "embedding", "retrieval", "answer_generation">>

(* C8: when a remote call fails, that failure is what the caller receives, the
   failed call is the last call the request issued, and no response is
   produced; no remote call is issued twice. *)
C8_FailurePropagates ==
    /\ [](/\ \A i, j \in DOMAIN calls : calls[i].name = calls[j].name => i = j
          /\ error.type = "RemoteError" =>
                /\ pc = "failed"
                /\ outstanding = {}
                /\ calls # <<>> /\ calls[Len(calls)].name = error.call
                /\ response = <<>>
          /\ pc = "failed" => error # NoError)
    /\ [][(pc # "failed" /\ pc' = "failed")
            => \/ error'.type \in {"ValueError", "KeyError"}
               \/ \E n \in outstanding :
                     error' = [type |-> "RemoteError", call |-> n]]_vars
    /\ [][error # NoError => UNCHANGED <<calls, chunks, response, error>>]_vars

C8_Witness ==
    /\ pc = "failed"
    /\ error = [type |-> "RemoteError", call |-> "retrieval"]
    /\ CallNames = <<"query_generation", "embedding", "retrieval">>

(* C9: when the content of the last message is not text, the request fails
   with the input error, no remote call has been issued, and nothing has been
   produced: no chunk (not even the header) and no response. *)
C9_NonTextFailsFirst ==
    messages_last = NonText =>
        /\ calls = <<>> /\ outstanding = {}
        /\ chunks = <<>> /\ response = <<>>
        /\ pc \in {"start", "failed"}
        /\ pc = "failed" => error = [type |-> "ValueError", call |-> "none"]
        /\ pc = "start" => error = NoError

C9_Witness ==
    /\ messages_last = NonText /\ should_stream
    /\ pc = "failed" /\ error.type = "ValueError"

(* C10: run_until_final_call returns ExtraInfo with an answer-generation
   request that has not been started.  In streaming mode the call is issued
   only when the consumer pulls again after the header: with the header just
   yielded, or with a consumer that stopped there, the call has not been
   issued, and a failure of the call finds the header already delivered. *)
C10_AnswerCallDeferred ==
    should_stream =>
        /\ "answer_generation" \in {calls[i].name : i \in DOMAIN calls}
              => Len(chunks) >= 1 /\ "session_state" \in DOMAIN chunks[1]
        /\ pc = "yield_header" =>
              /\ extra_info # NoExtraInfo
              /\ chunks = <<[delta |-> [role |-> "assistant"], context |-> extra_info,
                             session_state |-> SessionState]>>
              /\ outstanding = {}
              /\ "answer_generation" \notin {calls[i].name : i \in DOMAIN calls}
        /\ (stopped /\ Len(chunks) <= 1)
              => "answer_generation" \notin {calls[i].name : i \in DOMAIN calls}
        /\ error = [type |-> "RemoteError", call |-> "answer_generation"]
              => Len(chunks) = 1 /\ "session_state" \in DOMAIN chunks[1]

C10_Witness ==
    /\ should_stream
    /\ error = [type |-> "RemoteError", call |-> "answer_generation"]
    /\ Len(chunks) = 1

C10_WitnessStopped ==
    /\ should_stream /\ stopped /\ pc = "yield_header"
    /\ Len(chunks) = 1

----------------------------------------------------------------------------
(* The Query Extractor on one completion *)

Completion == service.chat_completion

\* get_search_query has run: a call that takes its result has been issued
QueryExtracted ==
    \E i \in DOMAIN calls : calls[i].name \in {"embedding", "retrieval"}

\* the query the retrieval call received
RetrievedQuery ==
    LET i == CHOOSE i \in DOMAIN calls : calls[i].name = "retrieval"
    IN  calls[i].args.query_text

RetrievalIssued == \E i \in DOMAIN calls : calls[i].name = "retrieval"

\* positions of the callable-function tool calls named search_sources whose
\* arguments hold a search_query other than the sentinel
ValidCalls ==
    {i \in DOMAIN Completion.tool_calls :
        LET t == Completion.tool_calls[i]
        IN  /\ t.type = "function" /\ t.name = "search_sources"
            /\ "search_query" \in DOMAIN t.arguments
            /\ t.arguments["search_query"] # <<"0">>}

FirstValidCall == CHOOSE i \in ValidCalls : \A j \in ValidCalls : i <= j

(* C11: when the completion has a callable-function tool call named
   search_sources with a search_query other than "0", the effective query is
   that search_query (of the first such call when there are several), whatever
   the user question and the free text are; it is what the retrieval call
   receives. *)
C11_ToolCallQueryReturned ==
    (QueryExtracted /\ ValidCalls # {})
      => /\ query_text = Completion.tool_calls[FirstValidCall].arguments["search_query"]
         /\ RetrievalIssued => RetrievedQuery = query_text

C11_Witness ==
    /\ RetrievalIssued /\ RetrievedQuery = <<"s", "q">>
    /\ Completion.content = <<"f", "t">>
    /\ Len(Completion.tool_calls) = 2
    /\ Completion.tool_calls[1].type = "custom"

\* a search_query that is a JSON null is returned as it is, ahead of a later
\* call with a text
C11_WitnessNull ==
    /\ RetrievalIssued /\ RetrievedQuery = None
    /\ Completion.tool_calls = <<SearchTool(None), SearchTool(<<"s", "q">>)>>
    /\ query_text = None

(* C12: with no tool call, when the free text is "0" after trimming
   whitespace, or when there is no free text, the effective query is the
   original user question verbatim. *)
C12_SentinelFallsBack ==
    (QueryExtracted /\ Completion.tool_calls = <<>>
        /\ \/ Completion.content \in {None, <<>>}
           \/ Strip(Completion.content) = <<"0">>)
      => /\ query_text = messages_last
         /\ RetrievalIssued => RetrievedQuery = messages_last

C12_Witness ==
    /\ RetrievalIssued /\ RetrievedQuery = UserQuery
    /\ Completion.tool_calls = <<>>
    /\ Completion.content = <<" ", "0", "\n">>

(* C13: with no tool call and free text that is not "0" after trimming, the
   effective query is the free text with its leading and trailing whitespace
   stripped. *)
C13_FreeTextStripped ==
    (QueryExtracted /\ Completion.tool_calls = <<>>
        /\ Completion.content \notin {None, <<>>}
        /\ Strip(Completion.content) # <<"0">>)
      => query_text = Strip(Completion.content)

----------------------------------------------------------------------------
(* Prompt Assembly on one override *)

PromptTemplate == Get(overrides, "prompt_template", None)

\* the directive handed to get_system_prompt
Directive == IF Suggest THEN follow_up_questions_prompt_content ELSE <<>>

\* the default system template with its two fields filled in
DefaultPrompt(injected_prompt) ==
    <<SystemTemplateText, "\n        ">> \o Directive
        \o <<"\n        ">> \o injected_prompt \o <<"\n        ">>

\* run_until_final_call has returned: the system message is resolved
PromptBuilt == extra_info # NoExtraInfo

SystemMessage == extra_info.thoughts[4].content.system_prompt

AnswerCallIssued == \E i \in DOMAIN calls : calls[i].name = "answer_generation"

\* the retrieval call has completed and has not failed
RetrievalDone ==
    /\ RetrievalIssued /\ "retrieval" \notin outstanding
    /\ error.type # "RemoteError"

FormatFailed == pc = "failed" /\ error.type \in {"KeyError", "ValueError"}

(* C14: with a prompt_template that begins with ">>>" the system message is
   the default template with injected_prompt equal to exactly the text after
   the marker and follow_up_questions_prompt equal to the directive; with no
   override it is the default template with an empty injected_prompt. *)
C14_InjectedPromptExact ==
    PromptBuilt =>
        /\ PromptTemplate = None => SystemMessage = DefaultPrompt(<<>>)
        /\ (PromptTemplate # None /\ StartsWithMarker(PromptTemplate))
              => SystemMessage =
                    DefaultPrompt(SubSeq(PromptTemplate, 4, Len(PromptTemplate)))

\* the override as a template of its own
OwnTemplate == PromptTemplate # None /\ ~StartsWithMarker(PromptTemplate)

Tokens(t) == {t[i] : i \in DOMAIN t}

\* replacement fields of the override other than the follow-up directive
UnknownFields == Tokens(PromptTemplate) \cap {"{injected_prompt}", "{who}"}

NoField ==
    Tokens(PromptTemplate)
        \cap {"{follow_up_questions_prompt}", "{injected_prompt}", "{who}"} = {}

NoBrace == Tokens(PromptTemplate) \cap {"{", "}", "{{", "}}"} = {}

RECURSIVE WithDirective(_)
\* the override with the directive in the place of each follow-up field
WithDirective(t) ==
    IF t = <<>> THEN <<>>
    ELSE (IF Head(t) = "{follow_up_questions_prompt}" THEN Directive ELSE <<Head(t)>>)
            \o WithDirective(Tail(t))

\* a reference to an unknown field fails the request before the answer call
UnknownFieldFails ==
    UnknownFields # {}
      => /\ ~PromptBuilt /\ ~AnswerCallIssued
         /\ response = <<>> /\ chunks = <<>>
         /\ RetrievalDone => FormatFailed

(* C15 as stated: an override that does not begin with ">>>" is the whole
   template and only the directive is substituted; an override with no
   placeholder is returned unchanged; an override that references another
   placeholder fails the request with a format error, with no
   answer-generation call, response or chunk. *)
C15_OverrideAsTemplate ==
    OwnTemplate =>
        /\ UnknownFields = {} =>
              /\ RetrievalDone => PromptBuilt
              /\ PromptBuilt => SystemMessage = WithDirective(PromptTemplate)
        /\ NoField => ~FormatFailed
        /\ UnknownFieldFails

(* C15 amended: an override with no placeholder and no brace character is
   returned unchanged, and one whose only placeholders are the follow-up
   directive's has just those replaced; an override that references another
   placeholder fails the request with a format error, with no
   answer-generation call, response or chunk. *)
C15_OverrideAsTemplateNoBrace ==
    OwnTemplate =>
        /\ (UnknownFields = {} /\ NoBrace) =>
              /\ RetrievalDone => PromptBuilt
              /\ ~FormatFailed
              /\ PromptBuilt => SystemMessage = WithDirective(PromptTemplate)
              /\ (PromptBuilt /\ NoField) => SystemMessage = PromptTemplate
        /\ UnknownFieldFails

C15_Witness ==
    /\ PromptTemplate = <<"{injected_prompt}">>
    /\ should_stream /\ FormatFailed /\ error.type = "KeyError"
    /\ CallNames = <<"query_generation", "embedding", "retrieval">>

C15_WitnessUnchanged ==
    /\ PromptTemplate = <<">", ">", "T">> /\ Suggest
    /\ PromptBuilt /\ SystemMessage = <<">", ">", "T">>

----------------------------------------------------------------------------
(* Retrieval options *)

RetrievalMode == Get(overrides, "retrieval_mode", "unset")

TextSearchWanted == RetrievalMode \in {"text", "hybrid", "unset"}
VectorSearchWanted == RetrievalMode \in {"vectors", "hybrid", "unset"}

EmbeddingCalls == {i \in DOMAIN calls : calls[i].name = "embedding"}
RetrievalCalls == {i \in DOMAIN calls : calls[i].name = "retrieval"}

\* the effective query of a completion whose free text, if any, is the sentinel
ExpectedQuery ==
    IF ValidCalls # {}
    THEN Completion.tool_calls[FirstValidCall].arguments["search_query"]
    ELSE messages_last

(* C16: text search is enabled exactly for retrieval_mode text, hybrid and
   unset, vector search exactly for vectors, hybrid and unset; the embedding
   call is issued, once and for the effective query, if and only if vector
   search is enabled; with overrides {} the retrieval call receives the
   effective query, top = 3, both searches enabled, and semantic ranker and
   semantic captions disabled. *)
C16_RetrievalOptions ==
    /\ \A i \in RetrievalCalls :
          /\ calls[i].args.use_text_search = TextSearchWanted
          /\ calls[i].args.use_vector_search = VectorSearchWanted
          /\ calls[i].args.query_text = ExpectedQuery
          /\ EmbeddingCalls # {} <=> VectorSearchWanted
          /\ (calls[i].args.vectors # <<>>) <=> VectorSearchWanted
          /\ DOMAIN overrides = {}
                => calls[i].args =
                      [top |-> 3, query_text |-> ExpectedQuery, filter |-> "None",
                       vectors |-> <<"embedding">>,
                       use_text_search |-> TRUE, use_vector_search |-> TRUE,
                       use_semantic_ranker |-> FALSE,
                       use_semantic_captions |-> FALSE]
    /\ Cardinality(EmbeddingCalls) <= 1
    /\ \A i \in EmbeddingCalls :
          VectorSearchWanted /\ calls[i].args = ExpectedQuery

C16_Witness ==
    /\ pc = "done" /\ DOMAIN overrides = {}
    /\ EmbeddingCalls = {2} /\ calls[2].args = <<"s", "q">>
    /\ RetrievalCalls = {3} /\ calls[3].args.query_text = <<"s", "q">>
    /\ calls[3].args.top = 3

C16_WitnessTextOnly ==
    /\ pc = "done" /\ RetrievalMode = "other"
    /\ EmbeddingCalls = {} /\ RetrievalCalls = {2}

----------------------------------------------------------------------------
(* run_without_streaming and Follow-up Extraction *)

Answer == service.answer

Returned == response # <<>>

(* C17: run_without_streaming returns the completion's content unchanged and
   a context without followup_questions when suggest_followup_questions is not
   enabled; when it is enabled, the content is the part of the completion
   before the first "<<" and context.followup_questions is the list of parsed
   questions, present even when empty.  session_state is returned as passed
   in. *)
C17_NonStreamingResponse ==
    Returned =>
        LET r == response[1]
        IN  /\ DOMAIN r = {"message", "context", "session_state"}
            /\ r.session_state = SessionState
            /\ r.message.role = "assistant"
            /\ r.context = extra_info
            /\ Len(r.context.thoughts) = 4
            /\ r.context.thoughts[4].content = calls[Len(calls)].args
            /\ IF Suggest
               THEN /\ DOMAIN r.context = {"data_points", "thoughts", "followup_questions"}
                    /\ r.message.content =
                          (IF Answer = None THEN None ELSE BeforeLT(Answer))
                    /\ r.context.followup_questions =
                          (IF Answer = None THEN <<>> ELSE FindAllFrom(Answer, 1))
               ELSE /\ DOMAIN r.context = {"data_points", "thoughts"}
                    /\ r.message.content = Answer

C17_Witness ==
    /\ Returned /\ ~Suggest
    /\ response[1].message.content = <<"p", "<", "<", "a", ">", ">", "<", "<", "b", ">", ">">>
    /\ "followup_questions" \notin DOMAIN response[1].context

C17_WitnessEnabled ==
    /\ Returned /\ Suggest
    /\ Answer = <<"a", "b">>
    /\ response[1].message.content = <<"a", "b">>
    /\ response[1].context.followup_questions = <<>>

(* C18: for a content made of a prefix followed by well-formed "<<question>>"
   pairs, with questions that are non-empty and hold no ">>" (a single ">" or
   "<" is allowed), the visible content is the prefix and the questions are the
   enclosed texts, in order. *)
C18_WellFormedPairs ==
    (Returned /\ Suggest)
      => \A c \in WellFormedCases :
            Answer = WellFormedContent(c)
              => /\ response[1].message.content = c.prefix
                 /\ response[1].context.followup_questions = c.questions

\* positions where an opening delimiter starts
Openings(s) == {i \in 1..(Len(s) - 1) : s[i] = "<" /\ s[i + 1] = "<"}

\* a closing delimiter lies after the opening delimiter at i
ClosedAfter(s, i) == \E j \in (i + 2)..(Len(s) - 1) : s[j] = ">" /\ s[j + 1] = ">"

FirstOpening(s) == CHOOSE i \in Openings(s) : \A j \in Openings(s) : i <= j

(* C19 as stated: for a content with an opening delimiter "<<" that no
   closing delimiter ">>" matches, the content comes back truncated at the
   first "<<" and the question list is empty. *)
C19_UnmatchedOpening ==
    (Returned /\ Suggest /\ Answer # None
        /\ \E i \in Openings(Answer) : ~ClosedAfter(Answer, i))
      => /\ response[1].message.content = SubSeq(Answer, 1, FirstOpening(Answer) - 1)
         /\ response[1].context.followup_questions = <<>>

\* a closed pair "<<text>>" starts at i: its text is non-empty and holds no ">"
PairAt(s, i) ==
    /\ i \in Openings(s)
    /\ \E j \in (i + 3)..(Len(s) - 1) :
          /\ s[j] = ">" /\ s[j + 1] = ">"
          /\ \A k \in (i + 2)..(j - 1) : s[k] # ">"

HasPair(s) == \E i \in Openings(s) : PairAt(s, i)

\* a text that a pair can enclose for the pattern: non-empty and without ">"
Enclosable(q) == q # <<>> /\ \A k \in 1..Len(q) : q[k] # ">"

(* C19 amended: for a content with an opening delimiter "<<" that no closing
   delimiter ">>" matches, the content comes back truncated at the first "<<";
   the question list is empty exactly when the content holds no closed pair
   "<<text>>" with a non-empty text free of ">"; for a prefix followed by
   closed pairs and then the unmatched "<<", the list holds the texts of the
   pairs whose text is non-empty and free of ">", in order of appearance. *)
C19_ClosedPairsKept ==
    (Returned /\ Suggest /\ Answer # None
        /\ \E i \in Openings(Answer) : ~ClosedAfter(Answer, i))
      => /\ response[1].message.content = SubSeq(Answer, 1, FirstOpening(Answer) - 1)
         /\ (response[1].context.followup_questions = <<>>) <=> ~HasPair(Answer)
         /\ \A c \in UnclosedCases :
               Answer = UnclosedContent(c)
                 => /\ response[1].message.content = c.prefix
                    /\ response[1].context.followup_questions =
                          SelectSeq(c.pairs, Enclosable)

C19_Witness ==
    /\ Returned /\ Suggest
    /\ Answer = <<"p", "<", "<", "a", ">">>
    /\ response[1].message.content = <<"p">>
    /\ response[1].context.followup_questions = <<>>

C19_WitnessPairsBefore ==
    /\ Returned /\ Suggest
    /\ Answer = <<"p", "<", "<", "a", ">", ">", "<", "<", "b">>
    /\ response[1].context.followup_questions = <<<<"a">>>>

\* a pair whose text holds ">" ahead of the unmatched delimiter: nothing kept
C19_WitnessLostPair ==
    /\ Returned /\ Suggest
    /\ Answer = <<"p">> \o Pair(<<"a", ">", "b">>) \o <<"<", "<", "b">>
    /\ response[1].message.content = <<"p">>
    /\ response[1].context.followup_questions = <<>>

----------------------------------------------------------------------------
(* A consumer that stops pulling *)

(* C20: once the consumer of a streaming response has stopped pulling, no
   further fragment is read from the generation stream, no chunk is yielded
   and the follow-up buffer is left as it is; stopped before the stream is
   exhausted, the response has no trailing follow-up chunk, even with a
   non-empty buffer. *)
C20_StoppedConsumer ==
    /\ [][stopped => UNCHANGED <<stream, blanks, event, followup_questions_started,
                                 followup_content, chunks, calls, pc>>]_vars
    /\ []((stopped /\ ~Exhausted) => Synthetic = {})

C20_Witness ==
    /\ stopped /\ pc = "yield_earlier"
    /\ followup_content = <<"<", "<", "a", ">">>
    /\ stream = <<"b", ">", ">">>
    /\ Len(chunks) = 2 /\ chunks[2].delta.content = <<">">>

----------------------------------------------------------------------------
(* The ExtraInfo of a request *)

Results == service.results

UseCaptions == Truthy(overrides, "semantic_captions")

\* the passage of one retrieved document
Passage(doc) ==
    <<doc.sourcepage, ": ">>
        \o (IF UseCaptions /\ doc.captions # <<>>
            THEN Join(<<" . ">>, doc.captions) ELSE doc.content)

ThoughtTitles == [i \in DOMAIN extra_info.thoughts |-> extra_info.thoughts[i].title]

(* C21: every ExtraInfo returned by run_until_final_call has data_points.text
   equal to the flattened retrieved sources and exactly four ThoughtStep
   entries in the order query-generation prompt, search parameters used, raw
   search results, answer-generation prompt; it is built only after the
   retrieval call has completed.  Its data points and thoughts do not change
   afterwards; run_without_streaming adds followup_questions to it when it
   returns, and nothing else does. *)
C21_ExtraInfoShape ==
    /\ [](PromptBuilt =>
            /\ RetrievalIssued /\ "retrieval" \notin outstanding
            /\ DOMAIN extra_info =
                  {"data_points", "thoughts"}
                      \cup (IF pc = "done" /\ Suggest THEN {"followup_questions"} ELSE {})
            /\ DOMAIN extra_info.data_points.text = DOMAIN Results
            /\ \A i \in DOMAIN Results :
                  extra_info.data_points.text[i] = Passage(Results[i])
            /\ ThoughtTitles = <<"Prompt to generate search query",
                                 "Search using generated search query",
                                 "Search results",
                                 "Prompt to generate answer">>
            /\ extra_info.thoughts[1].content = calls[1].args
            /\ extra_info.thoughts[2].content = RetrievedQuery
            /\ \A k \in DOMAIN extra_info.thoughts[2].props :
                  extra_info.thoughts[2].props[k]
                      = calls[CHOOSE i \in DOMAIN calls : calls[i].name = "retrieval"].args[k]
            /\ extra_info.thoughts[3].content = Results
            /\ extra_info.thoughts[4].content.new_user_content =
                  messages_last \o <<"\n\nSources:\n">>
                      \o Join(<<"\n">>, extra_info.data_points.text)
            /\ \A i \in DOMAIN calls :
                  calls[i].name = "answer_generation"
                      => calls[i].args = extra_info.thoughts[4].content)
    /\ [][PromptBuilt => /\ extra_info'.data_points = extra_info.data_points
                          /\ extra_info'.thoughts = extra_info.thoughts]_vars

C21_Witness ==
    /\ pc = "done" /\ UseCaptions
    /\ extra_info.data_points.text =
          << <<"p1", ": ", "d", "1">>, <<"p2", ": ", "c", "2">> >>
    /\ Len(extra_info.thoughts) = 4

----------------------------------------------------------------------------
(* Several tool calls *)

\* positions of the callable-function tool calls named search_sources
SearchCalls ==
    {i \in DOMAIN Completion.tool_calls :
        /\ Completion.tool_calls[i].type = "function"
        /\ Completion.tool_calls[i].name = "search_sources"}

FirstSearchCall == CHOOSE i \in SearchCalls : \A j \in SearchCalls : i <= j

\* get_search_query has raised nothing: a request that failed with the
\* query-generation call as its last call failed in that call
ExtractionRaisesNothing ==
    (pc = "failed" /\ Len(calls) = 1)
        => error = [type |-> "RemoteError", call |-> "query_generation"]

(* C22 as stated: with several tool calls, tool calls that are not
   callable-function are skipped without error and the result is decided by
   the first callable source-search tool call alone: its search_query if
   present and not the sentinel, otherwise the original user question. *)
C22_FirstSearchCallDecides ==
    /\ ExtractionRaisesNothing
    /\ (QueryExtracted /\ Len(Completion.tool_calls) >= 2 /\ SearchCalls # {})
         => query_text =
              (IF FirstSearchCall \in ValidCalls
               THEN Completion.tool_calls[FirstSearchCall].arguments["search_query"]
               ELSE messages_last)

(* C22 amended: with several tool calls, tool calls that are not
   callable-function are skipped without error and the result is decided by
   the first callable source-search tool call that has a search_query other
   than the sentinel; tool calls after that one never change the result, and
   without such a call the result is the original user question. *)
C22_FirstUsableCallDecides ==
    /\ ExtractionRaisesNothing
    /\ (QueryExtracted /\ Len(Completion.tool_calls) >= 2)
         => /\ \A i \in ValidCalls :
                  (\A j \in ValidCalls : i <= j)
                     => query_text = Completion.tool_calls[i].arguments["search_query"]
            /\ ValidCalls = {} => query_text = messages_last

C22_Witness ==
    /\ RetrievalIssued
    /\ Completion.tool_calls = <<SearchTool(<<"0">>), SearchTool(<<"s", "2">>)>>
    /\ RetrievedQuery = <<"s", "2">>

C22_WitnessSkipped ==
    /\ RetrievalIssued
    /\ Completion.tool_calls =
          <<ToolCall("custom", "search_sources", "search_query" :> <<"x", "x">>),
            SearchTool(<<"s", "q">>)>>
    /\ RetrievedQuery = <<"s", "q">>

----------------------------------------------------------------------------
(* Events without choices *)

\* a step of the async for loop that takes an event with an empty choices list
EmptyChoicesStep ==
    /\ pc = "stream_loop"
    /\ blanks' = blanks + 1
    /\ ~event'.choices

(* C23: an event of the generation stream with an empty choices list is
   skipped: it yields no chunk, raises no error, and leaves the normalizer
   state and the follow-up buffer unchanged, in PASSTHROUGH and in
   BUFFERING_FOLLOWUPS; the loop goes on with the next event. *)
C23_EmptyChoicesSkipped ==
    [][EmptyChoicesStep
         => /\ chunks' = chunks
            /\ error' = NoError /\ pc' = "stream_loop"
            /\ followup_questions_started' = followup_questions_started
            /\ followup_content' = followup_content
            /\ stream' = stream /\ demand']_vars

C23_Witness ==
    /\ pc = "stream_loop" /\ blanks = 1 /\ ~event.choices
    /\ followup_questions_started
    /\ followup_content = <<"<", "<", "a", ">", ">">>
    /\ stream = <<"<", "<", "b", ">", ">">>

C23_WitnessPassthrough ==
    /\ pc = "stream_loop" /\ blanks = 1 /\ ~event.choices
    /\ ~followup_questions_started
    /\ Len(chunks) = 2 /\ chunks[2].delta.content = <<"a">>

----------------------------------------------------------------------------
(* The split of the consumed text *)

\* positions of the chunks that carry a content delta
ContentChunks == {i \in DOMAIN chunks : "content" \in DOMAIN chunks[i].delta}

RECURSIVE EmittedFrom(_)
\* the contents of chunks[i..], concatenated, None read as ""
EmittedFrom(i) ==
    IF i > Len(chunks) THEN <<>>
    ELSE (IF i \in ContentChunks THEN OrEmpty(chunks[i].delta.content) ELSE <<>>)
            \o EmittedFrom(i + 1)

Emitted == EmittedFrom(1)

\* the text of the fragments the loop has taken from the stream
Consumed ==
    SubSeq(OrEmpty(Answer), 1, Len(OrEmpty(Answer)) - Len(stream))

RECURSIVE IsMerge(_, _, _)
\* c interleaves a and b, each in its own order
IsMerge(a, b, c) ==
    IF c = <<>> THEN a = <<>> /\ b = <<>>
    ELSE \/ a # <<>> /\ Head(a) = Head(c) /\ IsMerge(Tail(a), b, Tail(c))
         \/ b # <<>> /\ Head(b) = Head(c) /\ IsMerge(a, Tail(b), Tail(c))

\* the generation stream has been opened
InLoop == pc \in {"stream_loop", "yield_earlier", "yield_trailer", "finished"}

\* the part of the fragment in hand that line 245 has yet to append
Pending == IF pc = "yield_earlier" THEN FromLT(Fragment) ELSE <<>>

(* C24: with suggest_followup_questions enabled, after any number of
   fragments, the text consumed so far is split without loss or duplication
   between the emitted content and the follow-up buffer: their lengths add up
   to the length consumed, each part keeps the input order, and no emitted
   content chunk contains "<<". *)
C24_SplitWithoutLoss ==
    (should_stream /\ Suggest /\ InLoop)
      => /\ Len(Emitted) + Len(followup_content) + Len(Pending) = Len(Consumed)
         /\ IsMerge(Emitted, followup_content \o Pending, Consumed)
         /\ \A i \in ContentChunks : ~HasLT(OrEmpty(chunks[i].delta.content))

C24_Witness ==
    /\ should_stream /\ Suggest /\ pc = "finished"
    /\ Answer = <<"<", "<", "a", ">", ">", "<", "<", "b", ">", ">">>
    /\ Emitted = <<">">>
    /\ followup_content = <<"<", "<", "a", ">", "<", "<", "b", ">", ">">>

----------------------------------------------------------------------------
(* The effective query downstream of get_search_query *)

(* C25: within one request the effective query is the one query value used
   downstream: the embedding call, the retrieval call and the second
   ThoughtStep hold the same string; the answer-generation prompt is built
   from the original user question followed by the "Sources:" section, not
   from the effective query. *)
C25_OneEffectiveQuery ==
    /\ \A i \in EmbeddingCalls : calls[i].args = query_text
    /\ \A i \in RetrievalCalls : calls[i].args.query_text = query_text
    /\ \A i \in EmbeddingCalls, j \in RetrievalCalls :
          calls[i].args = calls[j].args.query_text
    /\ PromptBuilt =>
          /\ extra_info.thoughts[2].content = RetrievedQuery
          /\ IsPrefix(messages_last \o <<"\n\nSources:\n">>,
                      extra_info.thoughts[4].content.new_user_content)
          /\ \A i \in DOMAIN calls :
                calls[i].name = "answer_generation"
                  => IsPrefix(messages_last \o <<"\n\nSources:\n">>,
                              calls[i].args.new_user_content)

C25_Witness ==
    /\ pc = "done" /\ messages_last = <<"q", "?">>
    /\ CallNames = <<"query_generation", "embedding", "retrieval", "answer_generation">>
    /\ calls[2].args = <<"f", "t">>
    /\ calls[3].args.query_text = <<"f", "t">>
    /\ extra_info.thoughts[2].content = <<"f", "t">>
    /\ calls[4].args.new_user_content = <<"q", "?", "\n\nSources:\n">>

(* C26: when the completion has at least one tool call of any kind, the free
   text is never used: if no tool call yields a search_query other than the
   sentinel (wrong type, wrong function name, missing or sentinel
   search_query), the effective query is the original user question, even
   with free text that is not the sentinel. *)
C26_ToolCallsShadowFreeText ==
    (QueryExtracted /\ Completion.tool_calls # <<>> /\ ValidCalls = {})
      => /\ query_text = messages_last
         /\ RetrievalIssued => RetrievedQuery = messages_last

C26_Witness ==
    /\ RetrievalIssued /\ RetrievedQuery = UserQuery
    /\ Completion.content = <<"f", "t">>
    /\ Completion.tool_calls =
          <<ToolCall("custom", "search_sources", "search_query" :> <<"x", "x">>),
            SearchTool(<<"0">>)>>

====
